---- MODULE Spec2Model ----
(***************************************************************************)
(* GrafoDisperso (src/GraphCore.cpp): a CSR graph loaded from a text edge  *)
(* list or from the binary cache <path>.bin, with the two queries          *)
(* obtenerNodoCritico and bfs.  One source path, its text file and its     *)
(* cache file, and two GrafoDisperso instances that an embedder may load   *)
(* and query in any order.                                                 *)
(*                                                                         *)
(* C++ vectors are sequences; the element with C index i is s[i+1].        *)
(* The text file is modelled after tokenisation: the number of leading     *)
(* comment lines and the sequence of integer pairs that `file >> u >> v`   *)
(* yields.  The cache file is a sequence of bytes.                         *)
(***************************************************************************)
EXTENDS Integers, Sequences, FiniteSets, TLC

\* ------------------------------------------------------------------ bounds
MaxId == 1          \* vertex ids of the enumerated texts are in -1 .. MaxId
MaxEdges == 2       \* pairs per enumerated text
MaxPath == 4        \* longest path text 0->1->...->MaxPath
MaxLoads == 3       \* calls of cargarDatos in a run
MaxCortes == 1      \* times the cache file is cut short in a run
MaxCorte == 9       \* a cut leaves 0 .. MaxCorte bytes of the cache file
MaxDepth == 2       \* bfs depths are in 0 .. MaxDepth

Inst == {"A", "B"}

\* ------------------------------------------------------------------ helpers
At(s, i) == s[i + 1]

InRange(s, i) == i >= 0 /\ i < Len(s)

Put(s, i, x) == [s EXCEPT ![i + 1] = x]

Zeros(n) == [k \in 1..n |-> 0]

RECURSIVE Concat(_)
Concat(ss) == IF ss = <<>> THEN <<>> ELSE Head(ss) \o Concat(Tail(ss))

SetMax(S) == CHOOSE x \in S : \A y \in S : y <= x

\* std::vector<int>::resize(n): keeps the first n elements, value-initialises
\* the new ones.
Resize(s, n) == [k \in 1..n |-> IF k <= Len(s) THEN s[k] ELSE 0]

\* ------------------------------------------------------------------ state
\* A GrafoDisperso object (GraphCore.hpp:62-68).
GrafoDisperso == [num_nodos |-> 0, num_aristas |-> 0, row_ptr |-> <<>>, col_indices |-> <<>>]

\* ------------------------------------------------------------------ binary cache
\* The four bytes of a 32-bit int in memory, least significant first.
ByteOf(z, k) == (z \div (256 ^ k)) % 256

IntBytes(x) ==
    IF x >= 0 THEN [k \in 1..4 |-> ByteOf(x, k - 1)]
    ELSE [k \in 1..4 |-> 255 - ByteOf(-(x + 1), k - 1)]

BytesInt(b) ==
    IF b[4] >= 128
    THEN -(1 + (255 - b[1]) + 256 * (255 - b[2]) + 65536 * (255 - b[3]) + 16777216 * (255 - b[4]))
    ELSE b[1] + 256 * b[2] + 65536 * b[3] + 16777216 * b[4]

\* The memory block of a vector<int>: data(), size() * sizeof(int) bytes.
VecBytes(v) == Concat([k \in 1..Len(v) |-> IntBytes(v[k])])

BytesVec(b) == [k \in 1..(Len(b) \div 4) |-> BytesInt(SubSeq(b, 4 * k - 3, 4 * k))]

CacheImageCambiada(gr) ==
    IntBytes(gr.num_aristas) \o IntBytes(gr.num_nodos)
        \o VecBytes(gr.row_ptr) \o VecBytes(gr.col_indices)

\* ofstream::write x4 (GraphCore.cpp:98-102): the file guardarCache produces.
CacheImage(gr) ==
    IntBytes(gr.num_nodos) \o IntBytes(gr.num_aristas)
        \o VecBytes(gr.row_ptr) \o VecBytes(gr.col_indices)

\* istream::read(dst, n) on a stream st = [data, pos, good] over a memory
\* block `mem` of n bytes: a stream that is not good extracts nothing; a
\* short file stores the bytes it has, leaves the rest of the block as it
\* was and sets eofbit|failbit.
StreamRead(st, mem) ==
    LET n     == Len(mem)
        avail == Len(st.data) - st.pos
        got   == IF ~st.good THEN 0 ELSE IF avail >= n THEN n ELSE avail
    IN  [mem |-> SubSeq(st.data, st.pos + 1, st.pos + got) \o SubSeq(mem, got + 1, n),
         st  |-> [data |-> st.data, pos |-> st.pos + got,
                  good |-> st.good /\ avail >= n]]

\* GrafoDisperso::cargarDesdeCache (GraphCore.cpp:109-119) on an existing
\* file: the object's fields after the call and the value returned.
CargarDesdeCache(gr, bytes) ==
    LET s0 == [data |-> bytes, pos |-> 0, good |-> TRUE]
        r1 == StreamRead(s0, IntBytes(gr.num_nodos))
        nn == BytesInt(r1.mem)
        r2 == StreamRead(r1.st, IntBytes(gr.num_aristas))
        na == BytesInt(r2.mem)
        r3 == StreamRead(r2.st, VecBytes(Resize(gr.row_ptr, nn + 1)))
        r4 == StreamRead(r3.st, VecBytes(Resize(gr.col_indices, na)))
    IN  [g  |-> [num_nodos |-> nn, num_aristas |-> na,
                 row_ptr |-> BytesVec(r3.mem), col_indices |-> BytesVec(r4.mem)],
         ok |-> r4.st.good]

\* ------------------------------------------------------------------ text build
\* Pasada 1 (GraphCore.cpp:57-61): acc = [max_id, num_aristas].
RECURSIVE Pasada1(_, _)
Pasada1(es, acc) ==
    IF es = <<>> THEN acc
    ELSE LET u  == Head(es)[1]
             v  == Head(es)[2]
             m1 == IF u > acc.max_id THEN u ELSE acc.max_id
             m2 == IF v > m1 THEN v ELSE m1
         IN  Pasada1(Tail(es), [max_id |-> m2, num_aristas |-> acc.num_aristas + 1])

\* Pasada 2 (GraphCore.cpp:72): counts[u]++.  st = [counts, oob]; an index
\* outside counts is recorded in oob and leaves the vector as it is.
RECURSIVE Pasada2(_, _)
Pasada2(es, st) ==
    IF es = <<>> THEN st
    ELSE LET u == Head(es)[1]
         IN  IF InRange(st.counts, u)
             THEN Pasada2(Tail(es), [st EXCEPT !.counts = Put(@, u, At(@, u) + 1)])
             ELSE Pasada2(Tail(es), [st EXCEPT !.oob = TRUE])

\* Suma prefija (GraphCore.cpp:75-76), i = 0 .. num_nodos-1 over a zeroed row_ptr.
RECURSIVE SumaPrefija(_, _, _)
SumaPrefija(rp, counts, i) ==
    IF i >= Len(counts) THEN rp
    ELSE SumaPrefija(Put(rp, i + 1, At(rp, i) + At(counts, i)), counts, i + 1)

\* Pasada 3 (GraphCore.cpp:82-85): col_indices[current[u]] = v; current[u]++.
\* st = [current, col, oob].
Pasada3Desordenada(es, st) ==
    [st EXCEPT !.col = [k \in 1..Len(@) |-> IF k <= Len(es) THEN es[k][2] ELSE @[k]]]

RECURSIVE Pasada3(_, _)
Pasada3(es, st) ==
    IF es = <<>> THEN st
    ELSE LET u == Head(es)[1]
             v == Head(es)[2]
         IN  IF InRange(st.current, u) /\ InRange(st.col, At(st.current, u))
             THEN Pasada3(Tail(es),
                          [st EXCEPT !.col = Put(@, At(st.current, u), v),
                                     !.current = Put(@, u, At(@, u) + 1)])
             ELSE Pasada3(Tail(es), [st EXCEPT !.oob = TRUE])

\* The text branch of cargarDatos (GraphCore.cpp:48-85) on the object gr and
\* the pairs es of the file: the object's fields before guardarCache, and
\* whether a vector was indexed outside its bounds on the way.
ConstruirCSR(gr, es) ==
    LET p1  == Pasada1(es, [max_id |-> 0, num_aristas |-> gr.num_aristas])
        nn  == p1.max_id + 1
        na  == p1.num_aristas
        col == Resize(gr.col_indices, na)
        p2  == Pasada2(es, [counts |-> Zeros(nn), oob |-> FALSE])
        rp  == SumaPrefija(Zeros(nn + 1), p2.counts, 0)
        p3  == Pasada3(es, [current |-> rp, col |-> col, oob |-> p2.oob])
    IN  [g   |-> [num_nodos |-> nn, num_aristas |-> na,
                  row_ptr |-> rp, col_indices |-> p3.col],
         oob |-> p3.oob]

\* ------------------------------------------------------------------ queries
\* GrafoDisperso::obtenerNodoCritico (GraphCore.cpp:124-133), the loop from
\* index i with the running (max_d, id).
RECURSIVE NodoCriticoDesde(_, _, _, _)
NodoCriticoDesde(gr, i, max_d, id) ==
    IF i >= gr.num_nodos THEN id
    ELSE LET d == At(gr.row_ptr, i + 1) - At(gr.row_ptr, i)
         IN  IF d > max_d THEN NodoCriticoDesde(gr, i + 1, d, i)
             ELSE NodoCriticoDesde(gr, i + 1, max_d, id)

ObtenerNodoCriticoUltimo(gr) ==
    IF gr.num_nodos = 0 THEN -1
    ELSE LET deg(u) == At(gr.row_ptr, u + 1) - At(gr.row_ptr, u)
             best   == {u \in 0..(gr.num_nodos - 1) :
                          \A w \in 0..(gr.num_nodos - 1) : deg(w) <= deg(u)}
         IN  IF best = {} THEN -1 ELSE SetMax(best)

ObtenerNodoCritico(gr) == NodoCriticoDesde(gr, 0, -1, -1)

RECURSIVE BfsVecinosArbol(_, _, _, _)
BfsVecinosArbol(gr, u, i, st) ==
    IF i >= At(gr.row_ptr, u + 1) THEN st
    ELSE IF ~InRange(gr.col_indices, i) THEN [st EXCEPT !.oob = TRUE]
    ELSE LET v == At(gr.col_indices, i)
         IN  IF ~InRange(st.vis, v) THEN [st EXCEPT !.oob = TRUE]
             ELSE IF At(st.vis, v) = -1
                  THEN BfsVecinosArbol(gr, u, i + 1,
                                       [st EXCEPT !.res = Append(@, <<u, v>>),
                                                  !.vis = Put(@, v, At(st.vis, u) + 1),
                                                  !.q = Append(@, v)])
                  ELSE BfsVecinosArbol(gr, u, i + 1, st)

\* The inner loop of bfs (GraphCore.cpp:154-161) for the dequeued vertex u,
\* from index i.  st = [q, vis, res, oob]; an index outside col_indices or
\* vis stops the run with oob set.
RECURSIVE BfsVecinos(_, _, _, _)
BfsVecinos(gr, u, i, st) ==
    IF i >= At(gr.row_ptr, u + 1) THEN st
    ELSE IF ~InRange(gr.col_indices, i) THEN [st EXCEPT !.oob = TRUE]
    ELSE LET v  == At(gr.col_indices, i)
             s1 == [st EXCEPT !.res = Append(@, <<u, v>>)]
         IN  IF ~InRange(st.vis, v) THEN [s1 EXCEPT !.oob = TRUE]
             ELSE IF At(st.vis, v) = -1
                  THEN BfsVecinos(gr, u, i + 1,
                                  [s1 EXCEPT !.vis = Put(@, v, At(st.vis, u) + 1),
                                             !.q = Append(@, v)])
                  ELSE BfsVecinos(gr, u, i + 1, s1)

\* The while loop of bfs (GraphCore.cpp:149-162).
BfsExpandeNivelLimite(vis_u, depth) == vis_u > depth

BfsNoExpande(vis_u, depth) == vis_u >= depth

RECURSIVE BfsBucle(_, _, _)
BfsBucle(gr, depth, st) ==
    IF st.oob \/ st.q = <<>> THEN st
    ELSE LET u  == Head(st.q)
             s1 == [st EXCEPT !.q = Tail(@)]
         IN  IF BfsNoExpande(At(st.vis, u), depth) THEN BfsBucle(gr, depth, s1)
             ELSE BfsBucle(gr, depth, BfsVecinos(gr, u, At(gr.row_ptr, u), s1))

\* The guard of bfs (GraphCore.cpp:141).
BfsRechaza(startNode, num_nodos) == startNode >= num_nodos

\* GrafoDisperso::bfs (GraphCore.cpp:139-164): res, whether any element of
\* row_ptr, col_indices or vis was read or written (toca), and whether an
\* index was outside its vector (oob).
Bfs(gr, startNode, depth) ==
    IF BfsRechaza(startNode, gr.num_nodos)
    THEN [res |-> <<>>, toca |-> FALSE, oob |-> FALSE]
    ELSE LET vis0 == [k \in 1..gr.num_nodos |-> -1]
         IN  IF ~InRange(vis0, startNode)
             THEN [res |-> <<>>, toca |-> TRUE, oob |-> TRUE]
             ELSE LET st == BfsBucle(gr, depth,
                                     [q |-> <<startNode>>, vis |-> Put(vis0, startNode, 0),
                                      res |-> <<>>, oob |-> FALSE])
                  IN  [res |-> st.res, toca |-> TRUE, oob |-> st.oob]

\* ------------------------------------------------------------------ text file
\* A line of the text file is a pair <<u, v>> or a comment line, <<>>.
Comentario == <<>>

Ids == (0..MaxId) \cup {-1}

Pares == Ids \X Ids

RECURSIVE Camino(_)
Camino(n) == IF n = 0 THEN <<>> ELSE Append(Camino(n - 1), <<n - 1, n>>)

\* The texts of the scenarios: the paths 0->1->...->n, the triangle and the
\* multigraph.
TextosEscenario ==
    {Camino(n) : n \in 0..MaxPath}
        \cup {<< <<0, 1>>, <<1, 2>>, <<2, 0>> >>, << <<0, 1>>, <<0, 1>>, <<0, 2>> >>}

Textos ==
    UNION {[1..n -> Pares \cup {Comentario}] : n \in 0..MaxEdges} \cup TextosEscenario

\* GraphCore.cpp:53: skip the leading comment lines.
RECURSIVE SaltarComentarios(_)
SaltarComentarios(ls) ==
    IF ls # <<>> /\ Head(ls) = Comentario THEN SaltarComentarios(Tail(ls)) ELSE ls

\* `while (file >> u >> v)` from data-start: the pairs up to the first token
\* that is no integer (a comment line after data-start) or the end of file.
RECURSIVE LeerPares(_)
LeerPares(ls) ==
    IF ls = <<>> \/ Head(ls) = Comentario THEN <<>>
    ELSE <<Head(ls)>> \o LeerPares(Tail(ls))

Lector(ls) == LeerPares(SaltarComentarios(ls))

\* ------------------------------------------------------------------ state machine
VARIABLES
    texto,      \* the text file at the path: [existe, lineas]
    cache,      \* the file <path>.bin: [existe, bytes]
    origen,     \* history: the fields of the object that wrote the cache, and
                \* whether the file is still as guardarCache wrote it
    g,          \* the fields of each GrafoDisperso instance
    h,          \* history of each instance's cargarDatos calls
    ult,        \* the query that has just returned, cleared by the next call
    cortes      \* history: how many times the cache file was cut short

vars == <<texto, cache, origen, g, h, ult, cortes>>

SinConsulta ==
    [op |-> "ninguna", inst |-> "A", start |-> 0, depth |-> 0, res |-> <<>>,
     val |-> 0, toca |-> FALSE, oob |-> FALSE, abortado |-> FALSE]

Nuevo ==
    [cargas |-> 0, via |-> "nuevo", cacheFallo |-> FALSE, oob |-> FALSE,
     par |-> GrafoDisperso]

Init ==
    /\ texto \in {[existe |-> TRUE, lineas |-> ls] : ls \in Textos}
    /\ cache = [existe |-> FALSE, bytes |-> <<>>]
    /\ origen = [g |-> GrafoDisperso, integro |-> FALSE]
    /\ g = [i \in Inst |-> GrafoDisperso]
    /\ h = [i \in Inst |-> Nuevo]
    /\ ult = SinConsulta
    /\ cortes = 0

\* The process is running: no call has ended it.
Vivo == ~ult.abortado /\ \A i \in Inst : h[i].via # "abortado"

RECURSIVE Suma(_, _)
Suma(f, S) == IF S = {} THEN 0 ELSE LET x == CHOOSE y \in S : TRUE IN f[x] + Suma(f, S \ {x})

PuedeCargar(i) == Vivo /\ Suma([j \in Inst |-> h[j].cargas], Inst) < MaxLoads

\* cargarDatos line 33-34: the object after the cache attempt, and its result.
IntentoCache(i) ==
    IF cache.existe THEN CargarDesdeCache(g[i], cache.bytes)
    ELSE [g |-> g[i], ok |-> FALSE]

Historia(i, via, oob) ==
    [cargas |-> h[i].cargas + 1, via |-> via, cacheFallo |-> cache.existe /\ via # "cache",
     oob |-> oob, par |-> IF via = "cache" THEN origen.g ELSE GrafoDisperso]

\* GrafoDisperso::guardarCache (GraphCore.cpp:95-104); abre is whether the
\* ofstream could be opened.
GuardarCache(gr, abre) ==
    /\ cache' = IF abre THEN [existe |-> TRUE, bytes |-> CacheImage(gr)] ELSE cache
    /\ origen' = IF abre THEN [g |-> gr, integro |-> TRUE] ELSE origen

\* cargarDatos (GraphCore.cpp:29-89), the return at line 36.
CargarDeCache(i) ==
    /\ PuedeCargar(i)
    /\ cache.existe /\ IntentoCache(i).ok
    /\ g' = [g EXCEPT ![i] = IntentoCache(i).g]
    /\ h' = [h EXCEPT ![i] = Historia(i, "cache", FALSE)]
    /\ ult' = SinConsulta
    /\ UNCHANGED <<texto, cache, origen, cortes>>

\* cargarDatos, the return at line 45.
CargarSinArchivo(i) ==
    /\ PuedeCargar(i)
    /\ ~(cache.existe /\ IntentoCache(i).ok)
    /\ ~texto.existe
    /\ g' = [g EXCEPT ![i] = IntentoCache(i).g]
    /\ h' = [h EXCEPT ![i] = Historia(i, "sinarchivo", FALSE)]
    /\ ult' = SinConsulta
    /\ UNCHANGED <<texto, cache, origen, cortes>>

\* cargarDatos, lines 48-88, every index within its vector.
CargarDeTexto(i) ==
    /\ PuedeCargar(i)
    /\ ~(cache.existe /\ IntentoCache(i).ok)
    /\ texto.existe
    /\ LET b == ConstruirCSR(IntentoCache(i).g, Lector(texto.lineas))
       IN  /\ ~b.oob
           /\ g' = [g EXCEPT ![i] = b.g]
           /\ \E abre \in BOOLEAN : GuardarCache(b.g, abre)
    /\ h' = [h EXCEPT ![i] = Historia(i, "texto", FALSE)]
    /\ ult' = SinConsulta
    /\ UNCHANGED <<texto, cortes>>

\* cargarDatos, lines 48-88, with counts[u] or current[u] indexed by a
\* negative u: the process is ended by the access, or the accesses fall on
\* memory outside the vectors and the build goes on to guardarCache.
CargarDeTextoFueraDeRango(i) ==
    /\ PuedeCargar(i)
    /\ ~(cache.existe /\ IntentoCache(i).ok)
    /\ texto.existe
    /\ LET es == Lector(texto.lineas)
           b  == ConstruirCSR(IntentoCache(i).g, es)
       IN  /\ b.oob
           /\ \/ /\ g' = [g EXCEPT ![i] = b.g]
                 /\ h' = [h EXCEPT ![i] = Historia(i, "abortado", TRUE)]
                 /\ UNCHANGED <<cache, origen>>
              \/ /\ g' = [g EXCEPT ![i] = b.g]
                 /\ \E abre \in BOOLEAN : GuardarCache(b.g, abre)
                 /\ h' = [h EXCEPT ![i] = Historia(i, "texto", TRUE)]
    /\ ult' = SinConsulta
    /\ UNCHANGED <<texto, cortes>>

CargarDatos(i) ==
    \/ CargarDeCache(i)
    \/ CargarSinArchivo(i)
    \/ CargarDeTexto(i)
    \/ CargarDeTextoFueraDeRango(i)

\* The environment: the cache file is cut short, or a file is removed.
CorromperCache(k) ==
    /\ Vivo
    /\ cache.existe /\ origen.integro
    /\ cortes < MaxCortes
    /\ k < Len(cache.bytes)
    /\ cortes' = cortes + 1
    /\ cache' = [cache EXCEPT !.bytes = SubSeq(@, 1, k)]
    /\ origen' = [origen EXCEPT !.integro = FALSE]
    /\ ult' = SinConsulta
    /\ UNCHANGED <<texto, g, h>>

BorrarCache ==
    /\ Vivo
    /\ cache.existe
    /\ cache' = [existe |-> FALSE, bytes |-> <<>>]
    /\ origen' = [g |-> GrafoDisperso, integro |-> FALSE]
    /\ ult' = SinConsulta
    /\ UNCHANGED <<texto, g, h, cortes>>

BorrarTexto ==
    /\ Vivo
    /\ texto.existe
    /\ texto' = [texto EXCEPT !.existe = FALSE]
    /\ ult' = SinConsulta
    /\ UNCHANGED <<cache, origen, g, h, cortes>>

\* PyGraph.get_stats / run_bfs (neuronet.pyx:38-52) on instance i.
Inicios == (-1)..(MaxId + 1)

Profundidades == (0..MaxDepth) \cup {5}

ConsultarNodoCritico(i) ==
    /\ Vivo
    /\ ult' = [SinConsulta EXCEPT !.op = "critico", !.inst = i,
                                  !.val = ObtenerNodoCritico(g[i])]
    /\ UNCHANGED <<texto, cache, origen, g, h, cortes>>

ConsultarBfs(i, s, d) ==
    /\ Vivo
    /\ LET r == Bfs(g[i], s, d)
       IN  /\ ~r.oob
           /\ ult' = [SinConsulta EXCEPT !.op = "bfs", !.inst = i, !.start = s,
                                         !.depth = d, !.res = r.res, !.toca = r.toca]
    /\ UNCHANGED <<texto, cache, origen, g, h, cortes>>

\* bfs with an index outside vis or col_indices: the process is ended by the
\* access, or the call returns some sequence of pairs.
ConsultarBfsFueraDeRango(i, s, d) ==
    /\ Vivo
    /\ LET r == Bfs(g[i], s, d)
       IN  /\ r.oob
           /\ \E fin \in BOOLEAN, basura \in {<<>>, <<<<s, 0>>>>} :
                 ult' = [SinConsulta EXCEPT !.op = "bfs", !.inst = i, !.start = s,
                                            !.depth = d, !.res = r.res \o basura,
                                            !.toca = TRUE, !.oob = TRUE,
                                            !.abortado = fin]
    /\ UNCHANGED <<texto, cache, origen, g, h, cortes>>

Cortes == 0..MaxCorte

\* Two instances over the files of one path.
Next ==
    \/ \E i \in Inst : CargarDatos(i)
    \/ \E k \in Cortes : CorromperCache(k)
    \/ BorrarCache
    \/ BorrarTexto

Spec == Init /\ [][Next]_vars

\* Every object keeps row_ptr sized for its num_nodos, or is still empty.
Dimensionado ==
    \A i \in Inst : \/ g[i] = GrafoDisperso
                    \/ Len(g[i].row_ptr) = g[i].num_nodos + 1

\* One instance, loaded and queried.
NextConsultas ==
    \/ CargarDatos("A")
    \/ BorrarTexto
    \/ ConsultarNodoCritico("A")
    \/ \E s \in Inicios, d \in Profundidades : ConsultarBfs("A", s, d)
    \/ \E s \in Inicios, d \in Profundidades : ConsultarBfsFueraDeRango("A", s, d)

SpecConsultas == Init /\ [][NextConsultas]_vars

\* ------------------------------------------------------------------ reference definitions
\* The CSR invariants I1-I4.
BienFormado(gr) ==
    /\ Len(gr.row_ptr) = gr.num_nodos + 1
    /\ At(gr.row_ptr, 0) = 0
    /\ \A u \in 0..(gr.num_nodos - 1) : At(gr.row_ptr, u) <= At(gr.row_ptr, u + 1)
    /\ At(gr.row_ptr, gr.num_nodos) = gr.num_aristas
    /\ Len(gr.col_indices) = gr.num_aristas
    /\ \A k \in 1..Len(gr.col_indices) :
          gr.col_indices[k] >= 0 /\ gr.col_indices[k] < gr.num_nodos

SinNegativos(es) == \A k \in 1..Len(es) : es[k][1] >= 0 /\ es[k][2] >= 0

\* The targets of the pairs (u, *) of es, in the order of es.
RECURSIVE Destinos(_, _)
Destinos(es, u) ==
    IF es = <<>> THEN <<>>
    ELSE (IF Head(es)[1] = u THEN <<Head(es)[2]>> ELSE <<>>) \o Destinos(Tail(es), u)

MayorId(es) == SetMax({es[k][1] : k \in 1..Len(es)} \cup {es[k][2] : k \in 1..Len(es)})

\* The stored neighbor slice of u and its out-degree.
Vecinos(gr, u) == SubSeq(gr.col_indices, At(gr.row_ptr, u) + 1, At(gr.row_ptr, u + 1))

Grado(gr, u) == At(gr.row_ptr, u + 1) - At(gr.row_ptr, u)

\* The pairs (u, v) of the slices of the vertices of `orden`, in order.
AristasDe(gr, orden) ==
    Concat([j \in 1..Len(orden) |->
               [k \in 1..Len(Vecinos(gr, orden[j])) |-> <<orden[j], Vecinos(gr, orden[j])[k]>>]])

\* The vertices within k hops of s, and the hop distance of v from s
\* (-1 when v is not reachable).
RECURSIVE Alcanzables(_, _, _)
Alcanzables(gr, s, k) ==
    IF k = 0 THEN {s}
    ELSE LET A == Alcanzables(gr, s, k - 1)
         IN  A \cup UNION {{Vecinos(gr, u)[j] : j \in 1..Grado(gr, u)} : u \in A}

Distancia(gr, s, v) ==
    IF v \notin Alcanzables(gr, s, gr.num_nodos) THEN -1
    ELSE CHOOSE k \in 0..gr.num_nodos :
            /\ v \in Alcanzables(gr, s, k)
            /\ \A j \in 0..(k - 1) : v \notin Alcanzables(gr, s, j)

\* seq without the repetitions of an element after its first occurrence.
RECURSIVE SinRepetir(_)
SinRepetir(seq) ==
    IF seq = <<>> THEN <<>>
    ELSE LET r == SinRepetir(SubSeq(seq, 1, Len(seq) - 1))
             x == seq[Len(seq)]
         IN  IF \E j \in 1..Len(r) : r[j] = x THEN r ELSE Append(r, x)

\* The vertices at hop distance k from s in the order a breadth-first
\* traversal dequeues them: the order in which the scan of level k-1 first
\* meets them.
RECURSIVE OrdenNivel(_, _, _)
OrdenNivel(gr, s, k) ==
    IF k = 0 THEN <<s>>
    ELSE LET prev  == AristasDe(gr, OrdenNivel(gr, s, k - 1))
             dest  == [j \in 1..Len(prev) |-> prev[j][2]]
             EsNivel(v) == Distancia(gr, s, v) = k
         IN  SinRepetir(SelectSeq(dest, EsNivel))

\* The edges out of the vertices of level < depth, level by level.
BfsReferencia(gr, s, depth) ==
    Concat([k \in 1..depth |-> AristasDe(gr, OrdenNivel(gr, s, k - 1))])

\* The pairs the last text load of instance i parsed.
ParesLeidos == Lector(texto.lineas)

\* Instance i was loaded once, from the text, with no cache file present.
PrimeraCargaDeTexto(i) ==
    h[i].cargas = 1 /\ h[i].via = "texto" /\ ~h[i].cacheFallo

\* ------------------------------------------------------------------ claims
\* C1: after cargarDatos succeeds on a fresh instance, from a text of
\* non-negative pairs or from a cache file that guardarCache wrote for such a
\* text, the CSR is well formed (I1-I4).  Stated for runs in which every
\* instance is loaded at most once.
C1_CsrBienFormado ==
    \A i \in Inst :
        (/\ \A j \in Inst : h[j].cargas <= 1
         /\ h[i].cargas = 1 /\ SinNegativos(ParesLeidos) /\ h[i].via \in {"texto", "cache"})
        => BienFormado(g[i])

\* C2: a text with no pairs, only comment lines, loaded into a fresh instance
\* with no cache present gives num_nodes = 0, num_edges = 0, row_ptr = [0],
\* col_indices = []; then obtenerNodoCritico returns -1 and bfs(0, 5) is empty.
C2_TextoVacio ==
    \A i \in Inst :
        (PrimeraCargaDeTexto(i) /\ texto.lineas # <<>>
            /\ \A k \in 1..Len(texto.lineas) : texto.lineas[k] = Comentario)
        => /\ g[i] = [num_nodos |-> 0, num_aristas |-> 0, row_ptr |-> <<0>>,
                      col_indices |-> <<>>]
           /\ (ult.op = "critico" /\ ult.inst = i) => ult.val = -1
           /\ (ult.op = "bfs" /\ ult.inst = i /\ ult.start = 0 /\ ult.depth = 5)
                 => ult.res = <<>>

\* C3: a non-empty text of non-negative pairs loaded into a fresh instance
\* with no cache present gives num_nodes = largest id + 1, num_edges = number
\* of pairs, and the slice of every vertex u is the targets of the pairs
\* (u, *) in input order, duplicates and self-loops kept.
C3_CsrReferencia ==
    \A i \in Inst :
        (PrimeraCargaDeTexto(i) /\ ParesLeidos # <<>> /\ SinNegativos(ParesLeidos))
        => /\ g[i].num_nodos = MayorId(ParesLeidos) + 1
           /\ g[i].num_aristas = Len(ParesLeidos)
           /\ Len(g[i].row_ptr) = g[i].num_nodos + 1
           /\ Len(g[i].col_indices) = g[i].num_aristas
           /\ \A u \in 0..(g[i].num_nodos - 1) :
                 /\ At(g[i].row_ptr, u) >= 0
                 /\ At(g[i].row_ptr, u + 1) <= Len(g[i].col_indices)
                 /\ Vecinos(g[i], u) = Destinos(ParesLeidos, u)

\* C3's case: a load whose scatter pass did not store the targets in file
\* order, and a vertex with a repeated target.
C3_Testigo ==
    \E i \in Inst :
        /\ PrimeraCargaDeTexto(i) /\ SinNegativos(ParesLeidos)
        /\ Len(ParesLeidos) >= 2
        /\ g[i].col_indices # [k \in 1..Len(ParesLeidos) |-> ParesLeidos[k][2]]

\* C4: a fresh instance that loads the path with the cache present ends with
\* the num_nodes, num_edges, row_ptr and col_indices of the instance that
\* wrote the cache, whether or not the text file is there, and the two answer
\* obtenerNodoCritico and bfs alike.
C4_IdaYVuelta ==
    \A i \in Inst :
        (h[i].cargas = 1 /\ h[i].via = "cache")
        => /\ g[i].num_nodos = h[i].par.num_nodos
           /\ g[i].num_aristas = h[i].par.num_aristas
           /\ g[i].row_ptr = h[i].par.row_ptr
           /\ g[i].col_indices = h[i].par.col_indices
           /\ ObtenerNodoCritico(g[i]) = ObtenerNodoCritico(h[i].par)
           /\ \A s \in Inicios, d \in Profundidades : Bfs(g[i], s, d) = Bfs(h[i].par, s, d)

\* C4's case: the second instance loaded from the cache the first one wrote
\* after the text file was removed.
C4_Testigo ==
    \E i, j \in Inst :
        /\ i # j
        /\ h[j].cargas = 1 /\ h[j].via = "texto"
        /\ h[i].cargas = 1 /\ h[i].via = "cache"
        /\ ~texto.existe
        /\ g[i].num_aristas >= 2 /\ g[i].num_nodos >= 2
        /\ g[i] = g[j]

\* C5: with a cache file that is cut short, cargarDatos on a fresh instance
\* gives the num_nodes, num_edges, row_ptr and col_indices of a load of the
\* same text (of non-negative pairs) with no cache file.
C5_CacheCorrupta ==
    \A i \in Inst :
        (h[i].cargas = 1 /\ h[i].via = "texto" /\ h[i].cacheFallo
            /\ SinNegativos(ParesLeidos))
        => g[i] = ConstruirCSR(GrafoDisperso, ParesLeidos).g

\* C6: obtenerNodoCritico returns -1 when num_nodes = 0, and otherwise the
\* lowest vertex of largest out-degree.
C6_NodoCritico ==
    ult.op = "critico"
    => LET gr == g[ult.inst]
           c  == ult.val
       IN  IF gr.num_nodos = 0 THEN c = -1
           ELSE /\ c \in 0..(gr.num_nodos - 1)
                /\ \A u \in 0..(gr.num_nodos - 1) : Grado(gr, u) <= Grado(gr, c)
                /\ \A u \in 0..(c - 1) : Grado(gr, u) < Grado(gr, c)

\* C6's case: the query on a graph where the largest out-degree is shared
\* with a vertex of higher id.
C6_Testigo ==
    /\ ult.op = "critico"
    /\ g[ult.inst].num_nodos >= 2
    /\ Grado(g[ult.inst], ult.val) >= 1
    /\ \E u \in 0..(g[ult.inst].num_nodos - 1) :
          u > ult.val /\ Grado(g[ult.inst], u) = Grado(g[ult.inst], ult.val)

\* C7: bfs with start_node outside [0, num_nodes), above or below, returns
\* the empty sequence without error and without touching any array element.
C7_InicioFueraDeRango ==
    (ult.op = "bfs" /\ (ult.start < 0 \/ ult.start >= g[ult.inst].num_nodos))
    => ult.res = <<>> /\ ~ult.toca /\ ~ult.oob /\ ~ult.abortado

\* The text of the depth-cap scenario loaded into a fresh instance, and
\* bfs(0, 2) asked of it.
EscenarioCamino ==
    /\ ult.op = "bfs" /\ ult.start = 0 /\ ult.depth = 2
    /\ texto.lineas = << <<0, 1>>, <<1, 2>>, <<2, 3>>, <<3, 4>> >>
    /\ PrimeraCargaDeTexto(ult.inst)

\* C8 as stated: on the path 0->1->2->3->4, bfs(0, 2) emits
\* [(0,1),(1,2),(2,3)]: a vertex whose level equals depth is still expanded.
C8_Original ==
    EscenarioCamino => ult.res = << <<0, 1>>, <<1, 2>>, <<2, 3>> >>

\* C8 as amended: on the path 0->1->2->3->4, bfs(0, 2) emits [(0,1),(1,2)]:
\* vertex 2, whose level equals depth, is not expanded.
C8_CotaDeProfundidad ==
    EscenarioCamino => ult.res = << <<0, 1>>, <<1, 2>> >>

\* C8's case: the scenario's query has returned, with two pairs.
C8_Testigo == EscenarioCamino /\ Len(ult.res) = 2

\* C9: on a well-formed graph, for start_node in [0, num_nodes) and depth >= 0,
\* bfs returns, in dequeue order, the complete stored slices of the vertices
\* whose hop distance from start_node is below depth, and nothing else.
C9_BfsNiveles ==
    (ult.op = "bfs" /\ BienFormado(g[ult.inst])
        /\ ult.start >= 0 /\ ult.start < g[ult.inst].num_nodos /\ ult.depth >= 0)
    => /\ ~ult.oob
       /\ ult.res = BfsReferencia(g[ult.inst], ult.start, ult.depth)

\* C9's case: a traversal of more than one level that emitted an edge back
\* to an already expanded vertex.
C9_Testigo ==
    /\ ult.op = "bfs" /\ BienFormado(g[ult.inst])
    /\ ult.start >= 0 /\ ult.start < g[ult.inst].num_nodos
    /\ \E j \in 1..Len(ult.res) :
          /\ ult.res[j][1] # ult.start
          /\ \E k \in 1..(j - 1) : ult.res[k][1] = ult.res[j][2]

\* C10: a text pair with a negative integer is rejected by the builder: no
\* vector is indexed with a negative index and the load never completes with
\* an element of col_indices outside [0, num_nodes).
C10_NegativosRechazados ==
    \A i \in Inst :
        (h[i].via \in {"texto", "abortado"} /\ ~SinNegativos(ParesLeidos))
        => /\ ~h[i].oob
           /\ ~(h[i].via = "texto"
                  /\ \E k \in 1..Len(g[i].col_indices) :
                        g[i].col_indices[k] < 0 \/ g[i].col_indices[k] >= g[i].num_nodos)

====
